---- MODULE Spec2Model ----
(***************************************************************************)
(* Model of the ledger simulator of src/std/sim/node.py (class Node).      *)
(*                                                                         *)
(* The four lists coins, coin_records, mempool and blocks are CLASS        *)
(* attributes of Node (lines 24-27): an instance reads the class list      *)
(* until an assignment `self.x = ...` binds an attribute of its own.       *)
(* coins is rebound by remove_coin (line 55), mempool by farm_block        *)
(* (line 147); coin_records and blocks are only ever mutated in place, so  *)
(* there is one list of each for all instances.                            *)
(***************************************************************************)
EXTENDS Integers, Sequences, FiniteSets, TLC

\* ------------------------------------------------------------------ bounds
MaxCalls == 4       \* calls made on the ledger after the first construction

Nodes == {1, 2}
PublicKeys == {1}

\* ------------------------------------------------------------ Coin model
Coin(parent, ph, amount) ==
    [parent_coin_info |-> parent, puzzle_hash |-> ph, amount |-> amount]

\* Coin.name(): the content-addressed identity, a hash of the three fields
name(coin) == <<coin.parent_coin_info, coin.puzzle_hash, coin.amount>>

CoinX == Coin(<<"user", 1>>, 7, 2)
CoinY == Coin(<<"user", 2>>, 7, 1)
UserCoins == {CoinX, CoinY}

CoinRecord(coin, confirmed, spent_index, spent, coinbase, ts) ==
    [coin |-> coin, confirmed_block_index |-> confirmed,
     spent_block_index |-> spent_index, spent |-> spent,
     coinbase |-> coinbase, timestamp |-> ts]

\* ------------------------------------------------------ SpendBundle model
\* a coin solution: the coin spent and the coins its puzzle creates
CoinSolution(coin, created) == [coin |-> coin, created |-> created]

SpendBundle(coin_solutions, sig) ==
    [coin_solutions |-> coin_solutions, aggregated_signature |-> sig]

RECURSIVE Flatten(_)
Flatten(ss) == IF ss = <<>> THEN <<>> ELSE Head(ss) \o Flatten(Tail(ss))

RECURSIVE SumAmounts(_)
SumAmounts(cs) == IF cs = <<>> THEN 0 ELSE Head(cs).amount + SumAmounts(Tail(cs))

\* SpendBundle.removals(): the input coins, in coin-solution order
removals(bundle) ==
    [i \in 1 .. Len(bundle.coin_solutions) |-> bundle.coin_solutions[i].coin]

\* SpendBundle.additions(): the output coins, in coin-solution order
additions(bundle) ==
    Flatten([i \in 1 .. Len(bundle.coin_solutions) |-> bundle.coin_solutions[i].created])

\* SpendBundle.fees(): sum(inputs) - sum(outputs)
fees(bundle) == SumAmounts(removals(bundle)) - SumAmounts(additions(bundle))

BundleE == SpendBundle(<<>>, "sigE")
BundleA == SpendBundle(<<CoinSolution(CoinX, <<CoinY>>)>>, "sigA")
\* BundleB spends CoinX, which creates CoinY, and spends that CoinY as well
BundleB == SpendBundle(<<CoinSolution(CoinX, <<CoinY>>), CoinSolution(CoinY, <<>>)>>, "sigB")
Bundles == {BundleE, BundleA, BundleB}

\* ------------------------------------------------------- reward schedule
calculate_pool_reward(height) == IF height = 0 THEN 14 ELSE 7
calculate_base_farmer_reward(height) == IF height = 0 THEN 2 ELSE 1

create_puzzlehash_for_pk(pk) == 100 + pk

create_pool_coin(height, ph, reward) == Coin(<<"pool", height>>, ph, reward)
create_farmer_coin(height, ph, reward) == Coin(<<"farmer", height>>, ph, reward)

\* ------------------------------------------------------------------ state
VARIABLES
    nodes,          \* the Node instances constructed so far
    Node_coins,     \* class attribute Node.coins
    Node_mempool,   \* class attribute Node.mempool
    coin_records,   \* class attribute Node.coin_records (never rebound)
    blocks,         \* class attribute Node.blocks (never rebound)
    self_coins,     \* per instance: [bound, val], the instance attribute coins
    self_mempool,   \* per instance: [bound, val], the instance attribute mempool
    block_height,   \* per instance: self.block_height (class default 0)
    timestamp,      \* per instance: self.timestamp
    calls,          \* number of calls made so far
    last            \* the last call made and how it ended

vars == <<nodes, Node_coins, Node_mempool, coin_records, blocks,
          self_coins, self_mempool, block_height, timestamp, calls, last>>

Unbound == [bound |-> FALSE, val |-> <<>>]
Bound(list) == [bound |-> TRUE, val |-> list]

\* attribute lookup self.coins / self.mempool: the instance's own list when
\* bound, the class list otherwise
coins(n) == IF self_coins[n].bound THEN self_coins[n].val ELSE Node_coins
mempool(n) == IF self_mempool[n].bound THEN self_mempool[n].val ELSE Node_mempool

\* The record of a call: the method, the instance, the argument (as a list),
\* "returned" or the exception raised, and for push_tx what the validator
\* answered ("none" when it was not asked), the final status and the cost
\* returned (as a list, empty when nothing was returned). result holds what
\* farm_block and get_coins return (as a list, empty otherwise).
Call(op, n, arg, outcome, validated, status, cost) ==
    [op |-> op, self |-> n, arg |-> arg, outcome |-> outcome,
     validated |-> validated, status |-> status, cost |-> cost,
     result |-> <<>>]

Contains(list, x) == \E i \in 1 .. Len(list) : list[i] = x

\* list.remove(x): drops the first element equal to x
RemoveFirst(list, x) ==
    LET k == CHOOSE i \in 1 .. Len(list) :
                 /\ list[i] = x
                 /\ \A j \in 1 .. i - 1 : list[j] # x
    IN  SubSeq(list, 1, k - 1) \o SubSeq(list, k + 1, Len(list))

\* ------------------------------------------------- coin-set primitives
\* The part of the heap add_coin and remove_coin of one instance touch:
\* cls = Node.coins, own = the instance's coins attribute, recs = coin_records,
\* exc = the exception that ended the call ("none" when it returned).
Heap(n) == [cls |-> Node_coins, own |-> self_coins[n], recs |-> coin_records,
            exc |-> "none"]

HeapCoins(h) == IF h.own.bound THEN h.own.val ELSE h.cls

add_coin(h, coin, height, ts) ==
    [h EXCEPT !.cls = IF h.own.bound THEN @ ELSE Append(@, coin),
              !.own = IF h.own.bound THEN Bound(Append(h.own.val, coin)) ELSE @,
              !.recs = Append(@, CoinRecord(coin, height, 0, FALSE, FALSE, ts))]

\* lines 60-70: every matching record is removed and its spent copy appended
RECURSIVE UpdateRecords(_, _, _, _, _)
UpdateRecords(recs, matching, coin, height, ts) ==
    IF matching = <<>> THEN recs
    ELSE LET record == Head(matching)
             updated_record == CoinRecord(coin, record.confirmed_block_index,
                                          height, TRUE, record.coinbase, ts)
         IN  UpdateRecords(Append(RemoveFirst(recs, record), updated_record),
                           Tail(matching), coin, height, ts)

\* mutant of remove_coin: the assertion of line 56 is missing
remove_coin_unchecked(h, coin, height, ts) ==
    LET filtered == SelectSeq(HeapCoins(h), LAMBDA x : name(x) # name(coin))
        matching_record == SelectSeq(h.recs, LAMBDA e : e.coin = coin)
    IN  [h EXCEPT !.own = Bound(filtered),
                  !.recs = UpdateRecords(h.recs, matching_record, coin, height, ts)]

remove_coin(h, coin, height, ts) ==
    LET old_len == Len(HeapCoins(h))
        filtered == SelectSeq(HeapCoins(h), LAMBDA x : name(x) # name(coin))
        h1 == [h EXCEPT !.own = Bound(filtered)]
        matching_record == SelectSeq(h.recs, LAMBDA e : e.coin = coin)
    IN  IF Len(filtered) # old_len - 1
        THEN [h1 EXCEPT !.exc = "AssertionError"]
        ELSE [h1 EXCEPT !.recs = UpdateRecords(h.recs, matching_record, coin,
                                               height, ts)]

\* ------------------------------------------------ transaction admission
\* The flattened removals of a list of bundles (lines 162-165, 110-114)
RECURSIVE AllRemovals(_)
AllRemovals(mp) ==
    IF mp = <<>> THEN <<>> ELSE removals(Head(mp)) \o AllRemovals(Tail(mp))

RECURSIVE AllAdditions(_)
AllAdditions(mp) ==
    IF mp = <<>> THEN <<>> ELSE additions(Head(mp)) \o AllAdditions(Tail(mp))

RECURSIVE TotalFees(_)
TotalFees(mp) == IF mp = <<>> THEN 0 ELSE fees(Head(mp)) + TotalFees(Tail(mp))

\* mutant of pending_removals: the loop of lines 163-165 collects nothing
pending_removals_none(mp) == <<>>

\* lines 162-165: the removals of every pending bundle, handed to the validator
pending_removals(mp) == AllRemovals(mp)

Names(list) == {name(list[i]) : i \in 1 .. Len(list)}

Costs == {1}

\* validate_spendbundle(bundle, removals, coin_records, height): the external
\* validator. Its result (cost, status, error) is an input of push_tx; the one
\* thing assumed of it is that a bundle spending a coin of the reserved list
\* it is given does not get SUCCESS.
validate_spendbundle(spend_bundle, reserved, records, height) ==
    {v \in [cost : Costs, status : {"SUCCESS", "PENDING", "FAILED"},
            error : {"None", "Err"}] :
        /\ (v.status = "SUCCESS") <=> (v.error = "None")
        /\ (Names(removals(spend_bundle)) \cap Names(reserved) # {})
               => v.status # "SUCCESS"}

\* mutant of push_tx: the bundle is appended before the status is looked at
push_tx_appends_first(mp, spend_bundle, v) ==
    LET in_mempool == Contains(mp, spend_bundle)
        validated == IF in_mempool THEN "none" ELSE v.status
        status == IF in_mempool THEN "SUCCESS" ELSE v.status
        error == IF in_mempool THEN "None" ELSE v.error
        cost == IF in_mempool THEN <<>> ELSE <<v.cost>>
        admitted == Append(mp, spend_bundle)
    IN  [mempool |-> admitted, validated |-> validated, status |-> status,
         cost |-> IF status = "FAILED" THEN <<>> ELSE cost,
         outcome |-> IF status = "FAILED"
                     THEN (IF error = "None" THEN "AssertionError" ELSE "ValueError")
                     ELSE IF cost = <<>> THEN "UnboundLocalError" ELSE "returned"]

\* push_tx on the mempool list mp with validator result v: the list afterwards
\* and how the call ended. cost is a local that only the validator branch
\* assigns (line 171), so the return statement of lines 185-188 raises
\* UnboundLocalError when the bundle was found in the mempool at line 167.
push_tx(mp, spend_bundle, v) ==
    LET in_mempool == Contains(mp, spend_bundle)
        validated == IF in_mempool THEN "none" ELSE v.status
        downgraded == ~in_mempool /\ v.status # "SUCCESS" /\ Contains(mp, spend_bundle)
        status == IF in_mempool \/ downgraded THEN "SUCCESS" ELSE v.status
        error == IF in_mempool \/ downgraded THEN "None" ELSE v.error
        cost == IF in_mempool THEN <<>> ELSE <<v.cost>>
        admitted == IF status = "SUCCESS" THEN Append(mp, spend_bundle) ELSE mp
    IN  IF status = "FAILED"
        THEN [mempool |-> mp, validated |-> validated, status |-> status,
              cost |-> <<>>,
              outcome |-> IF error = "None" THEN "AssertionError" ELSE "ValueError"]
        ELSE IF cost = <<>>
        THEN [mempool |-> admitted, validated |-> validated, status |-> status,
              cost |-> <<>>,
              outcome |-> "UnboundLocalError"]
        ELSE [mempool |-> admitted, validated |-> validated, status |-> status,
              cost |-> cost,
              outcome |-> "returned"]

\* ------------------------------------------------------- block farming
FullBlock(reward_coins, generator, height) ==
    [reward_coins |-> reward_coins, generator |-> generator, height |-> height]

NoGenerator == [present |-> FALSE, coin_solutions |-> <<>>, signatures |-> <<>>]

\* lines 85-101: None for an empty mempool, else the encoding of the bundle
\* that joins every pending bundle's coin solutions and signatures
generate_transaction_generator(mp) ==
    IF Len(mp) = 0 THEN NoGenerator
    ELSE [present |-> TRUE,
          coin_solutions |-> Flatten([i \in 1 .. Len(mp) |-> mp[i].coin_solutions]),
          signatures |-> [i \in 1 .. Len(mp) |-> mp[i].aggregated_signature]]

\* lines 118-119: remove_coin for each removal in turn; the first one that
\* raises ends the loop with what was done so far
RECURSIVE ApplyRemovals(_, _, _, _)
ApplyRemovals(h, rems, height, ts) ==
    IF rems = <<>> \/ h.exc # "none" THEN h
    ELSE ApplyRemovals(remove_coin(h, Head(rems), height, ts), Tail(rems), height, ts)

\* lines 120-121
RECURSIVE ApplyAdditions(_, _, _, _)
ApplyAdditions(h, adds, height, ts) ==
    IF adds = <<>> THEN h
    ELSE ApplyAdditions(add_coin(h, Head(adds), height, ts), Tail(adds), height, ts)

pool_coin(height, public_key) ==
    create_pool_coin(height, create_puzzlehash_for_pk(public_key),
                     calculate_pool_reward(height))

\* mutant of farmer_coin: the fees are left out of the amount (line 133)
farmer_coin_without_fees(height, public_key, total_fees) ==
    create_farmer_coin(height, create_puzzlehash_for_pk(public_key),
                       calculate_base_farmer_reward(height))

farmer_coin(height, public_key, total_fees) ==
    create_farmer_coin(height, create_puzzlehash_for_pk(public_key),
                       calculate_base_farmer_reward(height) + total_fees)

\* mutant of farm_block: the additions are applied before the removals
farm_block_additions_first(h, mp, height, ts, public_key) ==
    LET h1 == ApplyAdditions(h, AllAdditions(mp), height, ts)
        h2 == ApplyRemovals(h1, AllRemovals(mp), height, ts)
        h3 == add_coin(h2, pool_coin(height, public_key), height, ts)
    IN  IF h2.exc # "none" THEN h2
        ELSE add_coin(h3, farmer_coin(height, public_key, TotalFees(mp)), height, ts)

\* farm_block up to line 137 on the heap h of the instance, its mempool mp,
\* its height and timestamp: the heap after the coin moves and the rewards.
\* exc # "none" when a remove_coin raised: nothing after line 119 has run.
farm_block(h, mp, height, ts, public_key) ==
    LET h1 == ApplyRemovals(h, AllRemovals(mp), height, ts)
        h2 == ApplyAdditions(h1, AllAdditions(mp), height, ts)
        h3 == add_coin(h2, pool_coin(height, public_key), height, ts)
    IN  IF h1.exc # "none" THEN h1
        ELSE add_coin(h3, farmer_coin(height, public_key, TotalFees(mp)), height, ts)

\* mutant of finish_block: the mempool is not cleared (line 147 missing)
finish_block_keeps_mempool(mp, height, public_key, now) ==
    [block |-> FullBlock(<<pool_coin(height, public_key),
                           farmer_coin(height, public_key, TotalFees(mp))>>,
                         generate_transaction_generator(mp), height),
     mempool |-> mp,
     block_height |-> height + 1,
     timestamp |-> now]

\* mutant of finish_block: the generator is built after the mempool is cleared
finish_block_generator_after_clear(mp, height, public_key, now) ==
    [block |-> FullBlock(<<pool_coin(height, public_key),
                           farmer_coin(height, public_key, TotalFees(mp))>>,
                         generate_transaction_generator(<<>>), height),
     mempool |-> <<>>,
     block_height |-> height + 1,
     timestamp |-> now]

\* lines 139-153: the block appended to the history and the instance's
\* mempool, height and timestamp after it
finish_block(mp, height, public_key, now) ==
    [block |-> FullBlock(<<pool_coin(height, public_key),
                           farmer_coin(height, public_key, TotalFees(mp))>>,
                         generate_transaction_generator(mp), height),
     mempool |-> <<>>,
     block_height |-> height + 1,
     timestamp |-> now]

\* mutant of farm_block_result: the reward coins are listed last
farm_block_result_rewards_last(mp, height, public_key) ==
    [additions |-> AllAdditions(mp)
                       \o <<pool_coin(height, public_key),
                            farmer_coin(height, public_key, TotalFees(mp))>>,
     removals |-> AllRemovals(mp)]

\* lines 154-157: the dictionary farm_block returns
farm_block_result(mp, height, public_key) ==
    [additions |-> <<pool_coin(height, public_key),
                     farmer_coin(height, public_key, TotalFees(mp))>>
                       \o AllAdditions(mp),
     removals |-> AllRemovals(mp)]

\* float_to_timestamp(time.time()): the readings the wall clock can give.
\* Each read is an input: two reads may give the same second, and a later
\* read may give an earlier one.
float_to_timestamp_now == {1, 2}

\* the arguments of set_block_height and set_timestamp
Heights == {0, 2}
Timestamps == {1, 3}

\* ---------------------------------------------------------------- actions
Init ==
    /\ nodes = {1}
    /\ Node_coins = <<>>
    /\ Node_mempool = <<>>
    /\ coin_records = <<>>
    /\ blocks = <<>>
    /\ self_coins = [n \in Nodes |-> Unbound]
    /\ self_mempool = [n \in Nodes |-> Unbound]
    /\ block_height = [n \in Nodes |-> 0]
    /\ \E now \in float_to_timestamp_now :
          timestamp = [n \in Nodes |-> IF n = 1 THEN now ELSE 0]
    /\ calls = 0
    /\ last = Call("__init__", 1, <<>>, "returned", "none", "none", <<>>)

\* Node(): lines 29-30
NewNode(n) ==
    /\ calls < MaxCalls
    /\ calls' = calls + 1
    /\ n \notin nodes
    /\ nodes' = nodes \cup {n}
    /\ \E now \in float_to_timestamp_now :
          timestamp' = [timestamp EXCEPT ![n] = now]
    /\ last' = Call("__init__", n, <<>>, "returned", "none", "none", <<>>)
    /\ UNCHANGED <<Node_coins, Node_mempool, coin_records, blocks, self_coins,
                   self_mempool, block_height>>

\* lines 32-33
SetBlockHeight(n, height) ==
    /\ calls < MaxCalls
    /\ calls' = calls + 1
    /\ n \in nodes
    /\ block_height' = [block_height EXCEPT ![n] = height]
    /\ last' = Call("set_block_height", n, <<height>>, "returned", "none", "none", <<>>)
    /\ UNCHANGED <<nodes, Node_coins, Node_mempool, coin_records, blocks,
                   self_coins, self_mempool, timestamp>>

\* lines 35-36
SetTimestamp(n, ts) ==
    /\ calls < MaxCalls
    /\ calls' = calls + 1
    /\ n \in nodes
    /\ timestamp' = [timestamp EXCEPT ![n] = ts]
    /\ last' = Call("set_timestamp", n, <<ts>>, "returned", "none", "none", <<>>)
    /\ UNCHANGED <<nodes, Node_coins, Node_mempool, coin_records, blocks,
                   self_coins, self_mempool, block_height>>

AddCoin(n, coin) ==
    /\ calls < MaxCalls
    /\ calls' = calls + 1
    /\ n \in nodes
    /\ LET h == add_coin(Heap(n), coin, block_height[n], timestamp[n])
       IN  /\ Node_coins' = h.cls
           /\ self_coins' = [self_coins EXCEPT ![n] = h.own]
           /\ coin_records' = h.recs
    /\ last' = Call("add_coin", n, <<coin>>, "returned", "none", "none", <<>>)
    /\ UNCHANGED <<nodes, Node_mempool, blocks, self_mempool, block_height,
                   timestamp>>

RemoveCoin(n, coin) ==
    /\ calls < MaxCalls
    /\ calls' = calls + 1
    /\ n \in nodes
    /\ LET h == remove_coin(Heap(n), coin, block_height[n], timestamp[n])
       IN  /\ Node_coins' = h.cls
           /\ self_coins' = [self_coins EXCEPT ![n] = h.own]
           /\ coin_records' = h.recs
           /\ last' = Call("remove_coin", n, <<coin>>,
                           IF h.exc = "none" THEN "returned" ELSE h.exc,
                           "none", "none", <<>>)
    /\ UNCHANGED <<nodes, Node_mempool, blocks, self_mempool, block_height,
                   timestamp>>

\* self.mempool.append mutates the list the attribute lookup finds
PushTx(n, spend_bundle) ==
    /\ calls < MaxCalls
    /\ calls' = calls + 1
    /\ n \in nodes
    /\ \E v \in validate_spendbundle(spend_bundle, pending_removals(mempool(n)),
                                     coin_records, block_height[n]) :
         LET r == push_tx(mempool(n), spend_bundle, v)
         IN  /\ IF self_mempool[n].bound
                THEN /\ self_mempool' = [self_mempool EXCEPT ![n] = Bound(r.mempool)]
                     /\ Node_mempool' = Node_mempool
                ELSE /\ Node_mempool' = r.mempool
                     /\ self_mempool' = self_mempool
             /\ last' = Call("push_tx", n, <<spend_bundle>>, r.outcome,
                             r.validated, r.status, r.cost)
    /\ UNCHANGED <<nodes, Node_coins, coin_records, blocks, self_coins,
                   block_height, timestamp>>

FarmBlock(n, public_key) ==
    /\ calls < MaxCalls
    /\ calls' = calls + 1
    /\ n \in nodes
    /\ \E now \in float_to_timestamp_now :
       LET mp == mempool(n)
           height == block_height[n]
           h == farm_block(Heap(n), mp, height, timestamp[n], public_key)
           f == finish_block(mp, height, public_key, now)
       IN  /\ Node_coins' = h.cls
           /\ self_coins' = [self_coins EXCEPT ![n] = h.own]
           /\ coin_records' = h.recs
           /\ IF h.exc # "none"
              THEN /\ last' = Call("farm_block", n, <<public_key>>, h.exc, "none",
                                   "none", <<>>)
                   /\ UNCHANGED <<blocks, self_mempool, block_height, timestamp>>
              ELSE /\ blocks' = Append(blocks, f.block)
                   /\ self_mempool' = [self_mempool EXCEPT ![n] = Bound(f.mempool)]
                   /\ block_height' = [block_height EXCEPT ![n] = f.block_height]
                   /\ timestamp' = [timestamp EXCEPT ![n] = f.timestamp]
                   /\ last' = [Call("farm_block", n, <<public_key>>, "returned",
                                    "none", "none", <<>>)
                                 EXCEPT !.result =
                                     <<farm_block_result(mp, height, public_key)>>]
    /\ UNCHANGED <<nodes, Node_mempool>>

Next ==
    \/ \E n \in Nodes : NewNode(n)
    \/ \E n \in Nodes, h \in Heights : SetBlockHeight(n, h)
    \/ \E n \in Nodes, t \in Timestamps : SetTimestamp(n, t)
    \/ \E n \in Nodes, c \in UserCoins : AddCoin(n, c)
    \/ \E n \in Nodes, c \in UserCoins : RemoveCoin(n, c)
    \/ \E n \in Nodes, b \in Bundles : PushTx(n, b)
    \/ \E n \in Nodes, pk \in PublicKeys : FarmBlock(n, pk)

Spec == Init /\ [][Next]_vars

\* ------------------------------------------------------------- get_coins
\* lines 72-76 on the list self.coins: coin_filter is the dictionary as the
\* list of its (key, value) pairs; each key is looked up in the __dict__ of
\* the Coin objects, which holds the three fields of a Coin, so a key that is
\* no Coin field raises KeyError as soon as there is a coin to test.
RECURSIVE get_coins(_, _)
get_coins(filtered_coins, coin_filter) ==
    IF coin_filter = <<>> THEN [exc |-> "none", coins |-> filtered_coins]
    ELSE LET key == Head(coin_filter)[1]
             value == Head(coin_filter)[2]
         IN  IF filtered_coins # <<>> /\ key \notin DOMAIN filtered_coins[1]
             THEN [exc |-> "KeyError", coins |-> <<>>]
             ELSE get_coins(SelectSeq(filtered_coins, LAMBDA e : e[key] = value),
                            Tail(coin_filter))

CoinFilters == {<<>>, <<<<"spent", FALSE>>>>, <<<<"coinbase", FALSE>>>>,
                <<<<"amount", 2>>>>}

GetCoins(n, coin_filter) ==
    /\ calls < MaxCalls
    /\ calls' = calls + 1
    /\ n \in nodes
    /\ LET r == get_coins(coins(n), coin_filter)
       IN  last' = [Call("get_coins", n, <<coin_filter>>,
                         IF r.exc = "none" THEN "returned" ELSE r.exc,
                         "none", "none", <<>>)
                    EXCEPT !.result = IF r.exc = "none" THEN <<r.coins>> ELSE <<>>]
    /\ UNCHANGED <<nodes, Node_coins, Node_mempool, coin_records, blocks,
                   self_coins, self_mempool, block_height, timestamp>>

\* the ledger with its query: the calls of Next and get_coins
NextQuery ==
    \/ Next
    \/ \E n \in Nodes, f \in CoinFilters : GetCoins(n, f)

SpecQuery == Init /\ [][NextQuery]_vars

\* ------------------------------------------------------------ properties
NoDuplicates(list) ==
    \A i, j \in 1 .. Len(list) : name(list[i]) = name(list[j]) => i = j

\* how many times x occurs in list
Count(list, x) == Cardinality({i \in 1 .. Len(list) : list[i] = x})

\* what one instance observes of the ledger
View(n) == [coins |-> coins(n), mempool |-> mempool(n),
            coin_records |-> coin_records, blocks |-> blocks,
            block_height |-> block_height[n], timestamp |-> timestamp[n]]

\* the step is a call of method op on instance n
Called(op, n) == calls' = calls + 1 /\ last'.op = op /\ last'.self = n

\* C1: push_tx(B) for a bundle B already in the mempool returns SUCCESS,
\* changes nothing, and the mempool holds B exactly once afterwards.
C1_IdempotentAdmission ==
    [][\A n \in Nodes :
          (Called("push_tx", n) /\ Contains(mempool(n), last'.arg[1]))
              => /\ last'.outcome = "returned"
                 /\ last'.status = "SUCCESS"
                 /\ View(n)' = View(n)
                 /\ Count(mempool(n)', last'.arg[1]) = 1]_vars

\* C2: the removals of the bundles pending in a mempool contain no coin
\* identity more than once.
C2_MempoolRemovalsDistinct ==
    \A n \in nodes : NoDuplicates(AllRemovals(mempool(n)))

\* C3: while a bundle A spending coin X is pending, push_tx(B) for another
\* bundle B spending X does not end with status SUCCESS and does not add B.
C3_NoDoubleSpendAdmission ==
    [][\A n \in Nodes :
          (/\ Called("push_tx", n)
           /\ \E i \in 1 .. Len(mempool(n)) :
                 /\ mempool(n)[i] # last'.arg[1]
                 /\ Names(removals(mempool(n)[i]))
                        \cap Names(removals(last'.arg[1])) # {})
              => /\ last'.status # "SUCCESS"
                 /\ ~Contains(mempool(n)', last'.arg[1])
                 /\ mempool(n)' = mempool(n)]_vars

\* C3 witness: bundle B was refused while A, which spends the same coin X,
\* stays pending.
C3_Witness ==
    /\ last.op = "push_tx"
    /\ last.arg = <<BundleB>>
    /\ last.validated \in {"PENDING", "FAILED"}
    /\ Contains(mempool(last.self), BundleA)
    /\ ~Contains(mempool(last.self), BundleB)

\* the coins that stay when the removals rems are taken out of list
Without(list, rems) == SelectSeq(list, LAMBDA x : name(x) \notin Names(rems))

\* C4: after a farm_block that completes, the live coin set is the one before
\* minus the removals, plus the additions, plus the two reward coins, and holds
\* no coin identity twice.
C4_Conservation ==
    [][\A n \in Nodes :
          (Called("farm_block", n) /\ last'.outcome = "returned")
              => LET mp == mempool(n)
                     pk == last'.arg[1]
                     h == block_height[n]
                 IN  /\ coins(n)' = Without(coins(n), AllRemovals(mp))
                                      \o AllAdditions(mp)
                                      \o <<pool_coin(h, pk),
                                           farmer_coin(h, pk, TotalFees(mp))>>
                     /\ NoDuplicates(coins(n)')]_vars

\* C5: a farm_block that completes leaves the height one greater and the
\* mempool empty.
C5_FarmAdvancesHeightAndClearsMempool ==
    [][\A n \in Nodes :
          (Called("farm_block", n) /\ last'.outcome = "returned")
              => /\ block_height'[n] = block_height[n] + 1
                 /\ mempool(n)' = <<>>]_vars

\* C5 witness: a block with pending transactions was farmed at height 0.
C5_Witness ==
    /\ last.op = "farm_block"
    /\ last.outcome = "returned"
    /\ block_height[last.self] = 1
    /\ mempool(last.self) = <<>>
    /\ blocks[Len(blocks)].generator.present

\* C6: a farm_block that fails on a removal leaves the coin set, the record
\* store, the mempool, the block history and the height as they were.
C6_FarmingAtomic ==
    [][\A n \in Nodes :
          (Called("farm_block", n) /\ last'.outcome = "AssertionError")
              => /\ coins(n)' = coins(n)
                 /\ coin_records' = coin_records
                 /\ mempool(n)' = mempool(n)
                 /\ blocks' = blocks
                 /\ block_height'[n] = block_height[n]]_vars

\* C7: remove_coin of a coin that is not in the live coin set fails and
\* leaves the live coin set and the record store with the same contents.
C7_RemoveAbsentCoinFails ==
    [][\A n \in Nodes :
          (Called("remove_coin", n) /\ name(last'.arg[1]) \notin Names(coins(n)))
              => /\ last'.outcome = "AssertionError"
                 /\ coins(n)' = coins(n)
                 /\ coin_records' = coin_records]_vars

\* C7 witness: remove_coin failed for a coin that is not live although a
\* spent record of it exists, next to a coin that is live.
C7_Witness ==
    /\ last.op = "remove_coin"
    /\ last.outcome = "AssertionError"
    /\ last.arg = <<CoinX>>
    /\ coins(last.self) = <<CoinY>>
    /\ \E i \in 1 .. Len(coin_records) :
          coin_records[i].coin = CoinX /\ coin_records[i].spent

\* C8: when the validator answers FAILED for a bundle that is not pending,
\* push_tx raises ValueError and no instance sees the ledger changed.
C8_FailedIsRejected ==
    [][\A n \in Nodes :
          (Called("push_tx", n) /\ last'.validated = "FAILED")
              => /\ last'.outcome = "ValueError"
                 /\ \A m \in Nodes : View(m)' = View(m)]_vars

\* C8 witness: a bundle was rejected with pending bundles and live coins around.
C8_Witness ==
    /\ last.op = "push_tx"
    /\ last.validated = "FAILED"
    /\ last.outcome = "ValueError"
    /\ mempool(last.self) # <<>>
    /\ coins(last.self) # <<>>

\* C9: push_tx changes nothing but the mempool, changes the mempool only when
\* the final status is SUCCESS, and returns PENDING without admitting.
C9_PushTxFrame ==
    [][\A n \in Nodes :
          Called("push_tx", n)
              => /\ UNCHANGED <<Node_coins, self_coins, coin_records, blocks,
                                block_height, timestamp, nodes>>
                 /\ (mempool(n)' # mempool(n) => last'.status = "SUCCESS")
                 /\ (last'.status = "PENDING"
                        => /\ last'.outcome = "returned"
                           /\ ~Contains(mempool(n)', last'.arg[1]))]_vars

\* C9 witness: a bundle was returned as PENDING and is not in the mempool.
C9_Witness ==
    /\ last.op = "push_tx"
    /\ last.outcome = "returned"
    /\ last.status = "PENDING"
    /\ ~Contains(mempool(last.self), last.arg[1])
    /\ coins(last.self) # <<>>

\* C10: the record store holds exactly one CoinRecord for each coin identity
\* it knows.
C10_OneRecordPerCoin ==
    \A i, j \in 1 .. Len(coin_records) :
        name(coin_records[i].coin) = name(coin_records[j].coin) => i = j

\* the identities of the coins whose record is unspent
UnspentNames == {name(coin_records[i].coin) :
                    i \in {j \in 1 .. Len(coin_records) : ~coin_records[j].spent}}

\* C11: the coins of the live coin set are exactly the coins whose CoinRecord
\* is unspent.
C11_LiveIffUnspent ==
    \A n \in nodes : Names(coins(n)) = UnspentNames

IsRewardCoin(coin) == coin.parent_coin_info[1] \in {"pool", "farmer"}

\* C12: a CoinRecord has coinbase = true exactly when its coin is a reward
\* coin added by farm_block.
C12_CoinbaseMarksRewards ==
    \A i \in 1 .. Len(coin_records) :
        coin_records[i].coinbase = IsRewardCoin(coin_records[i].coin)

\* the fees of the first k bundles of mp, each as inputs minus outputs
RECURSIVE FeeSum(_, _)
FeeSum(mp, k) ==
    IF k = 0 THEN 0
    ELSE FeeSum(mp, k - 1) + SumAmounts(removals(mp[k])) - SumAmounts(additions(mp[k]))

\* the step is a call of farm_block on instance n that completed
Farmed(n) == Called("farm_block", n) /\ last'.outcome = "returned"

\* C13: the farmer reward coin of a farm_block at height h is worth
\* farmer_base_reward(h) plus the fees of the bundles pending at the start, the
\* pool reward coin pool_reward(h), h being the height before the increment.
C13_RewardAmounts ==
    [][\A n \in Nodes :
          Farmed(n)
              => LET h == block_height[n]
                     mp == mempool(n)
                     live == coins(n)'
                     pool == live[Len(live) - 1]
                     farmer == live[Len(live)]
                 IN  /\ pool.parent_coin_info = <<"pool", h>>
                     /\ pool.amount = calculate_pool_reward(h)
                     /\ farmer.parent_coin_info = <<"farmer", h>>
                     /\ farmer.amount = calculate_base_farmer_reward(h)
                                          + FeeSum(mp, Len(mp))
                     /\ (mp = <<>> => farmer.amount = calculate_base_farmer_reward(h))
                     /\ blocks'[Len(blocks')].reward_coins = <<pool, farmer>>]_vars

\* C13 witness: a block farmed at height 1 with bundle A (fee 1) pending.
C13_Witness ==
    /\ last.op = "farm_block"
    /\ last.outcome = "returned"
    /\ blocks[Len(blocks)].height = 1
    /\ blocks[Len(blocks)].generator.coin_solutions = BundleA.coin_solutions
    /\ blocks[Len(blocks)].reward_coins[2].amount = calculate_base_farmer_reward(1) + 1

\* C14: farm_block returns the two reward coins followed by the additions of
\* every pending bundle, and the removals of every pending bundle, in mempool
\* order; 2 additions and 0 removals for an empty mempool.
C14_FarmBlockResult ==
    [][\A n \in Nodes :
          Farmed(n)
              => LET h == block_height[n]
                     mp == mempool(n)
                     pk == last'.arg[1]
                     r == last'.result[1]
                 IN  /\ r.additions =
                            <<pool_coin(h, pk), farmer_coin(h, pk, FeeSum(mp, Len(mp)))>>
                              \o Flatten([i \in 1 .. Len(mp) |-> additions(mp[i])])
                     /\ r.removals = Flatten([i \in 1 .. Len(mp) |-> removals(mp[i])])
                     /\ (mp = <<>> => Len(r.additions) = 2 /\ Len(r.removals) = 0)]_vars

\* C14 witness: farm_block returned the removals and the addition of bundle B.
C14_Witness ==
    /\ last.op = "farm_block"
    /\ last.outcome = "returned"
    /\ last.result[1].removals = <<CoinX, CoinY>>
    /\ Len(last.result[1].additions) = 3
    /\ last.result[1].additions[3] = CoinY

\* C15: a farm_block that completes appends one FullBlock and changes no
\* earlier one; the block holds the two reward coins, the height before the
\* increment, and a generator that is none exactly when the mempool was empty.
C15_BlockAppended ==
    [][\A n \in Nodes :
          Farmed(n)
              => LET h == block_height[n]
                     mp == mempool(n)
                     pk == last'.arg[1]
                     new == blocks'[Len(blocks')]
                 IN  /\ Len(blocks') = Len(blocks) + 1
                     /\ SubSeq(blocks', 1, Len(blocks)) = blocks
                     /\ new.reward_coins = <<pool_coin(h, pk),
                                             farmer_coin(h, pk, FeeSum(mp, Len(mp)))>>
                     /\ new.height = h
                     /\ new.generator.present = (mp # <<>>)
                     /\ new.generator.coin_solutions =
                            Flatten([i \in 1 .. Len(mp) |-> mp[i].coin_solutions])]_vars

\* C15 witness: a second block, with a generator, follows a first one without.
C15_Witness ==
    /\ last.op = "farm_block"
    /\ last.outcome = "returned"
    /\ Len(blocks) = 2
    /\ ~blocks[1].generator.present
    /\ blocks[2].generator.present
    /\ blocks[2].height = 1

RecordFields == {"coin", "confirmed_block_index", "spent_block_index", "spent",
                 "coinbase", "timestamp"}

\* the current record of a coin: the latest one the record store holds for it
CurrentRecord(coin) ==
    coin_records[CHOOSE i \in 1 .. Len(coin_records) :
                    /\ coin_records[i].coin = coin
                    /\ \A j \in i + 1 .. Len(coin_records) : coin_records[j].coin # coin]

Satisfies(record, coin_filter) ==
    \A k \in 1 .. Len(coin_filter) : record[coin_filter[k][1]] = coin_filter[k][2]

\* C16: get_coins(filter), for a filter over record fields, returns exactly
\* the live coins whose current CoinRecord satisfies every pair of the filter
\* (all live coins for the empty filter).
C16_GetCoinsFiltersRecords ==
    [][\A n \in Nodes :
          (/\ Called("get_coins", n)
           /\ \A k \in 1 .. Len(last'.arg[1]) : last'.arg[1][k][1] \in RecordFields)
              => /\ last'.outcome = "returned"
                 /\ last'.result =
                        <<SelectSeq(coins(n),
                                    LAMBDA c : Satisfies(CurrentRecord(c), last'.arg[1]))>>]_vars

\* how many coins of list have the identity of coin
Copies(list, coin) == Cardinality({i \in 1 .. Len(list) : name(list[i]) = name(coin)})

\* C17: remove_coin of a coin the live coin set holds more than once fails
\* and leaves the live coin set and the record store as they were.
C17_RemoveDuplicatedCoinAborts ==
    [][\A n \in Nodes :
          (Called("remove_coin", n) /\ Copies(coins(n), last'.arg[1]) > 1)
              => /\ last'.outcome = "AssertionError"
                 /\ coins(n)' = coins(n)
                 /\ coin_records' = coin_records]_vars

\* the places of the records of coin in the record store
RecordsOf(coin) == {i \in 1 .. Len(coin_records) : coin_records[i].coin = coin}

\* C18: a remove_coin(c) that completes replaces the one record of c by a
\* copy that is spent at the current height and keeps confirmed_block_index
\* and coinbase, and changes no other record; remove_coin fails when the
\* store holds no record or several records of c.
C18_SpendAffectsOneRecord ==
    [][\A n \in Nodes :
          Called("remove_coin", n)
              => LET c == last'.arg[1]
                     i == CHOOSE k \in RecordsOf(c) : TRUE
                     old == coin_records[i]
                     new == coin_records'[Len(coin_records')]
                 IN  /\ (Cardinality(RecordsOf(c)) # 1 => last'.outcome # "returned")
                     /\ (last'.outcome = "returned"
                            => /\ Len(coin_records') = Len(coin_records)
                               /\ SubSeq(coin_records', 1, Len(coin_records) - 1)
                                    = SubSeq(coin_records, 1, i - 1)
                                        \o SubSeq(coin_records, i + 1, Len(coin_records))
                               /\ new.coin = c
                               /\ new.spent
                               /\ new.spent_block_index = block_height[n]
                               /\ new.confirmed_block_index = old.confirmed_block_index
                               /\ new.coinbase = old.coinbase)]_vars

\* C19: farm_block applies every removal before any addition and adds the
\* reward coins last: it completes only when every removal was live before
\* the round, and the coins and records of the round follow in that order.
C19_RemovalsBeforeAdditions ==
    [][\A n \in Nodes :
          Called("farm_block", n)
              => LET mp == mempool(n)
                     h == block_height[n]
                     pk == last'.arg[1]
                     rems == Flatten([i \in 1 .. Len(mp) |-> removals(mp[i])])
                     adds == Flatten([i \in 1 .. Len(mp) |-> additions(mp[i])])
                     created == adds \o <<pool_coin(h, pk),
                                          farmer_coin(h, pk, FeeSum(mp, Len(mp)))>>
                     first == Len(coin_records') - Len(created)
                 IN  /\ (last'.outcome = "returned")
                            <=> (/\ NoDuplicates(rems)
                                 /\ \A i \in 1 .. Len(rems) :
                                       Copies(coins(n), rems[i]) = 1)
                     /\ (last'.outcome = "returned"
                            => /\ coins(n)' = Without(coins(n), rems) \o created
                               /\ \A k \in 1 .. Len(created) :
                                     /\ coin_records'[first + k].coin = created[k]
                                     /\ ~coin_records'[first + k].spent)]_vars

\* C19 witness: bundle B, which spends CoinX and CoinY and creates CoinY, was
\* farmed: the old CoinY is spent and the new one is live behind the others.
C19_Witness ==
    /\ last.op = "farm_block"
    /\ last.outcome = "returned"
    /\ blocks[Len(blocks)].generator.coin_solutions = BundleB.coin_solutions
    /\ Len(coins(last.self)) = 3
    /\ coins(last.self)[1] = CoinY
    /\ \E i \in 1 .. Len(coin_records) :
          coin_records[i].coin = CoinY /\ coin_records[i].spent

\* the four lists instance n reads
Lists(n) == [coins |-> coins(n), coin_records |-> coin_records,
             mempool |-> mempool(n), blocks |-> blocks]

\* C20: a newly constructed Node starts with the four lists empty, and a call
\* on one Node leaves what every other Node observes unchanged.
C20_InstancesIsolated ==
    [][\A n \in Nodes :
          /\ Called("__init__", n)
                => Lists(n)' = [coins |-> <<>>, coin_records |-> <<>>,
                                mempool |-> <<>>, blocks |-> <<>>]
          /\ (/\ last'.op \in {"add_coin", "remove_coin", "push_tx", "farm_block"}
              /\ Called(last'.op, n))
                => \A m \in nodes \ {n} : Lists(m)' = Lists(m)]_vars

====
